---- MODULE Spec2Model ----
(***************************************************************************)
(* A model of PseudoNetCDF/sci_var.py: the dimension-aware array           *)
(* (PseudoNetCDFVariable), the in-memory file (PseudoNetCDFFile), the lazy *)
(* variable dictionary (PseudoNetCDFVariables), the transformations        *)
(* slice_dim / reduce_dim / extract / getvarpnc and the converter          *)
(* Pseudo2NetCDF.                                                          *)
(*                                                                         *)
(* Python values are modelled as follows.                                  *)
(*   - a dict is a function whose domain is its key set;                   *)
(*   - a tuple or list is a sequence;                                      *)
(*   - an optional integer (an int or None) is <<n>> or <<>>;              *)
(*   - an array element is an exact rational <<n, d>> in lowest terms with *)
(*     d > 0, and <<0, 0>> stands for nan;                                 *)
(*   - an array is [cls, shape, data, dtype, dict]: cls is its type, data  *)
(*     maps every zero-based index tuple of shape to an element, dict is   *)
(*     the instance __dict__ (empty for a plain ndarray).                  *)
(*   - a call that may raise returns [f |-> the file as the call left it,  *)
(*     raised |-> the exception's name, or "" when it returned].           *)
(*                                                                         *)
(* The storage backend the converter writes to (netcdf.NetCDFFile) is not  *)
(* in sci_var.py; it is modelled from what the specification says of it.   *)
(***************************************************************************)
EXTENDS Integers, Sequences, FiniteSets, TLC

VARIABLES
    pvar,      \* array spec: the parent PseudoNetCDFVariable
    dvar,      \* array spec: the latest array derived from pvar
    nderiv,    \* array spec: [n |-> derivations made, reduced |-> a rank-reducing one was made]
    reg,       \* registry spec: the PseudoNetCDFVariables object
    f,         \* file, extraction, projection, fuzzy and conversion specs: the PseudoNetCDFFile
    stage,     \* the same specs: how far the caller is with building f
    last       \* the last call made: its arguments, its outcome, the file before it

vars == <<pvar, dvar, nderiv, reg, f, stage, last>>

\* ------------------------------------------------------------------ bounds

\* largest dimension length and array extent the inputs use
MaxLen == 2
\* longest chain of derivations from one parent array
MaxDerive == 2
\* most attribute assignments made on one parent array
MaxSetattr == 1

\* ------------------------------------------------------------ python basics

EmptyDict == [k \in {} |-> 0]

SetItem(d, k, v) == [x \in (DOMAIN d) \cup {k} |-> IF x = k THEN v ELSE d[x]]

DelItem(d, k) == [x \in (DOMAIN d) \ {k} |-> d[x]]

Range(s) == {s[i] : i \in DOMAIN s}

Front(s) == SubSeq(s, 1, Len(s) - 1)

\* s.index(x): zero-based position of the first x in s
IndexOf(s, x) == (CHOOSE i \in 1..Len(s) : s[i] = x /\ \A j \in 1..(i - 1) : s[j] # x) - 1

\* Spelling of every name the model uses, for the tests the code makes on a
\* name's characters (k[:1] == '_', key[:len(dimkey)], isdigit()).
Chars(name) ==
    CASE name = "x" -> <<"x">>
      [] name = "x0" -> <<"x", "0">>
      [] name = "x01" -> <<"x", "0", "1">>
      [] name = "y" -> <<"y">>
      [] name = "time_bounds" -> <<"t", "i", "m", "e", "_", "b", "o", "u", "n", "d", "s">>
      [] name = "_ncattrs" -> <<"_", "n", "c", "a", "t", "t", "r", "s">>
      [] name = "_FillValue" -> <<"_", "F", "i", "l", "l">>
      [] OTHER -> <<name>>

Digits == {"0", "1", "2", "3", "4", "5", "6", "7", "8", "9"}

\* str.isdigit(): non-empty and all digits
isdigit(cs) == Len(cs) > 0 /\ \A i \in 1..Len(cs) : cs[i] \in Digits

\* k[:1] == '_'
IsPrivate(k) == SubSeq(Chars(k), 1, 1) = <<"_">>

\* -------------------------------------------------------------- rationals

Abs(n) == IF n < 0 THEN -n ELSE n

RECURSIVE GCD(_, _)
GCD(a, b) == IF b = 0 THEN a ELSE GCD(b, a % b)

NaN == <<0, 0>>

Rat(n, d) ==
    IF d = 0 THEN NaN
    ELSE LET g == GCD(Abs(n), Abs(d))
             s == IF d < 0 THEN -1 ELSE 1
         IN <<(s * n) \div g, (s * d) \div g>>

Int2Rat(n) == <<n, 1>>

RAdd(a, b) == IF a = NaN \/ b = NaN THEN NaN ELSE Rat(a[1] * b[2] + b[1] * a[2], a[2] * b[2])

RLess(a, b) == a[1] * b[2] < b[1] * a[2]

\* numpy's maximum: nan wins
RMax(a, b) == IF a = NaN \/ b = NaN THEN NaN ELSE IF RLess(a, b) THEN b ELSE a

RMin(a, b) == IF a = NaN \/ b = NaN THEN NaN ELSE IF RLess(b, a) THEN b ELSE a

RDivInt(a, n) == IF a = NaN THEN NaN ELSE Rat(a[1], a[2] * n)

RECURSIVE FoldSeq(_, _, _)
\* op(...op(op(base, s[1]), s[2])..., s[n])
FoldSeq(op(_, _), base, s) ==
    IF s = <<>> THEN base ELSE FoldSeq(op, op(base, Head(s)), Tail(s))

\* ----------------------------------------------------------------- ndarray

\* every zero-based index tuple of an array of this shape
Indices(shape) ==
    LET top == FoldSeq(LAMBDA a, b : IF b > a THEN b ELSE a, 0, shape)
    IN {idx \in [1..Len(shape) -> 0..(top - 1)] : \A i \in 1..Len(shape) : idx[i] < shape[i]}

\* numpy.zeros(shape, typecode)
zeros(shape, typecode) ==
    [cls |-> "ndarray", shape |-> shape, data |-> [idx \in Indices(shape) |-> Int2Rat(0)],
     dtype |-> typecode, dict |-> EmptyDict]

\* position of a multi-index in C (row-major) order
RECURSIVE Ravel(_, _)
Ravel(shape, idx) ==
    IF Len(shape) = 0 THEN 0
    ELSE Ravel(Front(shape), Front(idx)) * shape[Len(shape)] + idx[Len(idx)]

\* numpy.arange(n).reshape(shape) + base, of integer type
arange(shape, base) ==
    [cls |-> "ndarray", shape |-> shape,
     data |-> [idx \in Indices(shape) |-> Int2Rat(base + Ravel(shape, idx))],
     dtype |-> "l", dict |-> EmptyDict]

Swap(s, i, j) == [k \in DOMAIN s |-> IF k = i THEN s[j] ELSE IF k = j THEN s[i] ELSE s[k]]

\* the sequence s without its i-th entry
Drop(s, i) == SubSeq(s, 1, i - 1) \o SubSeq(s, i + 1, Len(s))

\* the sequence s with x inserted so that it becomes the i-th entry
Insert(s, i, x) == SubSeq(s, 1, i - 1) \o <<x>> \o SubSeq(s, i, Len(s))

Clamp(v, lo, hi) == IF v < lo THEN lo ELSE IF v > hi THEN hi ELSE v

RECURSIVE Steps(_, _, _)
\* start, start + step, ... strictly before stop (step > 0) or after it (step < 0)
Steps(start, stop, step) ==
    IF (step > 0 /\ start >= stop) \/ (step < 0 /\ start <= stop) THEN <<>>
    ELSE <<start>> \o Steps(start + step, stop, step)

\* mutant: the first selected index is left out
SliceIndices_skip_first(n, start, stop, step) ==
    LET st == IF step = <<>> THEN 1 ELSE step[1]
        a == IF start = <<>> THEN 0 ELSE Clamp(IF start[1] < 0 THEN start[1] + n ELSE start[1], 0, n)
        b == IF stop = <<>> THEN n ELSE Clamp(IF stop[1] < 0 THEN stop[1] + n ELSE stop[1], 0, n)
    IN Steps(a + st, b, st)

\* The indices that [start:stop:step] selects from a sequence of length n
\* (slice.indices); start, stop and step are optional integers, step is not 0.
SliceIndices(n, start, stop, step) ==
    LET st == IF step = <<>> THEN 1 ELSE step[1]
        norm(v, lo, hi) == Clamp(IF v < 0 THEN v + n ELSE v, lo, hi)
        lo == IF st > 0 THEN 0 ELSE -1
        hi == IF st > 0 THEN n ELSE n - 1
        a == IF start = <<>> THEN (IF st > 0 THEN 0 ELSE n - 1) ELSE norm(start[1], lo, hi)
        b == IF stop = <<>> THEN (IF st > 0 THEN n ELSE -1) ELSE norm(stop[1], lo, hi)
    IN Steps(a, b, st)

\* ------------------------------------------------ PseudoNetCDFVariable

\* Names every ndarray instance answers hasattr() for without a __dict__ entry
\* (attributes and methods of the class), among the names the model uses.
ClassAttrs == {"shape", "max", "ncattrs"}

hasattr(self, k) == k \in DOMAIN self.dict \/ k \in ClassAttrs

getattr(self, k) == self.dict[k]

\* ndarray.__setattr__ on a subclass instance: the name goes to __dict__
ndarray_setattr(self, k, v) == [self EXCEPT !.dict = SetItem(@, k, v)]

\* PseudoNetCDFVariable.__setattr__
Variable_setattr(self, k, v) ==
    LET noted == IF ~hasattr(self, k) /\ ~IsPrivate(k)
                 THEN ndarray_setattr(self, "_ncattrs", Append(getattr(self, "_ncattrs"), k))
                 ELSE self
    IN ndarray_setattr(noted, k, v)

\* PseudoNetCDFVariable.ncattrs
Variable_ncattrs(self) == getattr(self, "_ncattrs")

\* the loop "for k in obj._ncattrs: setattr(self, k, getattr(obj, k))"
CopyAttrs(self, obj) ==
    FoldSeq(LAMBDA acc, k : Variable_setattr(acc, k, getattr(obj, k)), self, getattr(obj, "_ncattrs"))

\* mutant: the name 'dimensions' stays on _ncattrs
FinalizeKeepsName(self, obj) ==
    IF ~hasattr(self, "dimensions") /\ hasattr(obj, "dimensions")
    THEN Variable_setattr(self, "dimensions", getattr(obj, "dimensions"))
    ELSE self

\* mutant: the last dimension name goes when the tuple is longer than the rank
FinalizeDropsLast(self, obj) ==
    IF ~hasattr(self, "dimensions") /\ hasattr(obj, "dimensions")
    THEN LET d == getattr(obj, "dimensions")
             s == Variable_setattr(self, "dimensions",
                                   IF Len(d) > Len(self.shape) THEN Front(d) ELSE d)
         IN Variable_setattr(s, "_ncattrs", Front(getattr(s, "_ncattrs")))
    ELSE self

\* the second half of __array_finalize__: take over obj's dimensions, and
\* take the name 'dimensions' that __setattr__ just noted off _ncattrs again
FinalizeDimensions(self, obj) ==
    IF ~hasattr(self, "dimensions") /\ hasattr(obj, "dimensions")
    THEN LET s == Variable_setattr(self, "dimensions", getattr(obj, "dimensions"))
         IN Variable_setattr(s, "_ncattrs", Front(getattr(s, "_ncattrs")))
    ELSE self

\* PseudoNetCDFVariable.__array_finalize__ with obj an array (never None here:
\* every array of the model is made from another one)
array_finalize(self, obj) ==
    LET s1 == IF ~hasattr(self, "_ncattrs")
              THEN LET s0 == Variable_setattr(self, "_ncattrs", <<>>)
                   IN IF hasattr(obj, "_ncattrs") THEN CopyAttrs(s0, obj) ELSE s0
              ELSE self
    IN FinalizeDimensions(s1, obj)

\* What numpy does to make an array from obj (a view, a slice, a reduction's
\* result): a new object of obj's type with an empty __dict__, finalized from obj.
Derived(obj, shape, data, dtype) ==
    LET new == [cls |-> obj.cls, shape |-> shape, data |-> data, dtype |-> dtype, dict |-> EmptyDict]
    IN IF obj.cls = "ndarray" THEN new ELSE array_finalize(new, obj)

\* obj[...]
ViewAll(obj) == Derived(obj, obj.shape, obj.data, obj.dtype)

\* obj.view(PseudoNetCDFVariable)
ViewAs(obj) ==
    array_finalize([cls |-> "PseudoNetCDFVariable", shape |-> obj.shape, data |-> obj.data,
                    dtype |-> obj.dtype, dict |-> EmptyDict], obj)

\* obj.swapaxes(a1, a2), axes zero-based
swapaxes(obj, a1, a2) ==
    LET shape == Swap(obj.shape, a1 + 1, a2 + 1)
    IN Derived(obj, shape, [idx \in Indices(shape) |-> obj.data[Swap(idx, a1 + 1, a2 + 1)]], obj.dtype)

\* obj[start:stop:step], a slice of the first axis
getslice(obj, start, stop, step) ==
    LET sel == SliceIndices(obj.shape[1], start, stop, step)
        shape == <<Len(sel)>> \o Tail(obj.shape)
    IN Derived(obj, shape,
               [idx \in Indices(shape) |-> obj.data[<<sel[idx[1] + 1]>> \o Tail(idx)]], obj.dtype)

\* obj[i] for an array of rank two or more: the first axis goes
getitem0(obj, i) ==
    LET shape == Tail(obj.shape)
    IN Derived(obj, shape, [idx \in Indices(shape) |-> obj.data[<<i>> \o idx]], obj.dtype)

\* obj[(slice(None),) * (axis + 1) + (None,)]: a new axis of length 1 after axis
newaxis_after(obj, axis) ==
    LET shape == Insert(obj.shape, axis + 2, 1)
    IN Derived(obj, shape, [idx \in Indices(shape) |-> obj.data[Drop(idx, axis + 2)]], obj.dtype)

\* Can numpy.<func>(obj, axis = axis) be computed: max of nothing raises
ReduceRaises(obj, func, axis) == func \in {"max", "min"} /\ obj.shape[axis + 1] = 0

\* the aggregate of the elements in the sequence vals
Aggregate(func, vals) ==
    CASE func = "sum" -> FoldSeq(RAdd, Int2Rat(0), vals)
      [] func = "mean" -> RDivInt(FoldSeq(RAdd, Int2Rat(0), vals), Len(vals))
      [] func = "max" -> FoldSeq(RMax, Head(vals), Tail(vals))
      [] func = "min" -> FoldSeq(RMin, Head(vals), Tail(vals))

\* numpy.<func>(obj, axis = axis): the axis goes; the mean of integers is a double
reduce(obj, func, axis) ==
    LET shape == Drop(obj.shape, axis + 1)
        n == obj.shape[axis + 1]
        dtype == IF func = "mean" /\ obj.dtype = "l" THEN "d" ELSE obj.dtype
    IN Derived(obj, shape,
               [idx \in Indices(shape) |->
                    Aggregate(func, [j \in 1..n |-> obj.data[Insert(idx, axis + 1, j - 1)]])],
               dtype)

\* The shape PseudoNetCDFVariable.__new__ computes from the parent's
\* dimensions, which maps a name to a PseudoNetCDFDimension.
NewShape(dimensions_of_parent, dimensions) ==
    [i \in 1..Len(dimensions) |-> dimensions_of_parent[dimensions[i]]._len]

\* PseudoNetCDFVariable.__new__(parent, name, typecode, dimensions, **kwds):
\* values is <<the array>> when the keyword 'values' is given and <<>> when
\* not; kwds is the sequence of the other keywords as <<name, value>> pairs.
\* A KeyError on an unknown dimension is the caller's to test with NewRaises.
Variable_new(dimensions_of_parent, typecode, dimensions, values, kwds) ==
    LET result == IF values # <<>> THEN values[1]
                  ELSE zeros(NewShape(dimensions_of_parent, dimensions), typecode)
        viewed == ViewAs(ViewAll(result))
        typed == [viewed EXCEPT !.dict = SetItem(SetItem(@, "typecode", typecode),
                                                 "dimensions", dimensions)]
    IN FoldSeq(LAMBDA acc, kv : Variable_setattr(acc, kv[1], kv[2]), typed, kwds)

\* the lookup parent.dimensions[d] fails for some d
NewRaises(dimensions_of_parent, dimensions, values) ==
    values = <<>> /\ \E i \in 1..Len(dimensions) : dimensions[i] \notin DOMAIN dimensions_of_parent

\* ---------------------------------------------------- PseudoNetCDFFile

\* PseudoNetCDFFile.__new__: dimensions, variables and _ncattrs are the three
\* entries __new__ puts in __dict__; dict holds every other entry of __dict__.
File_new == [dimensions |-> EmptyDict, variables |-> EmptyDict, _ncattrs |-> <<>>, dict |-> EmptyDict]

\* PseudoNetCDFDimension.__init__
Dimension_init(size) == [_len |-> size, _unlimited |-> FALSE]

\* PseudoNetCDFDimension.setunlimited
setunlimited(dim, unlimited) == [dim EXCEPT !._unlimited = unlimited]

\* PseudoNetCDFFile.__setattr__, for every name but the three of __new__
File_setattr(self, k, v) ==
    LET noted == IF ~(IsPrivate(k) \/ k \in {"dimensions", "variables", "groups"})
                 THEN [self EXCEPT !._ncattrs = Append(@, k)]
                 ELSE self
    IN [noted EXCEPT !.dict = SetItem(@, k, v)]

\* PseudoNetCDFFile.ncattrs
File_ncattrs(self) == self._ncattrs

\* PseudoNetCDFFile.createDimension
createDimension(self, name, length) ==
    [self EXCEPT !.dimensions = SetItem(@, name, Dimension_init(length))]

\* PseudoNetCDFFile.createVariable(name, type, dimensions, **properties):
\* the variable is registered only when __new__ returned
createVariable(self, name, type, dimensions, values, kwds) ==
    IF NewRaises(self.dimensions, dimensions, values)
    THEN [f |-> self, raised |-> "KeyError"]
    ELSE [f |-> [self EXCEPT !.variables =
                    SetItem(@, name, Variable_new(self.dimensions, type, dimensions, values, kwds))],
          raised |-> ""]

\* a call that returned, leaving the file as self
Ok(self) == [f |-> self, raised |-> ""]

\* a call that raised, leaving the file as self
Raise(self, exc) == [f |-> self, raised |-> exc]

\* The statements of a loop body run for every item of a list in turn, until
\* one raises: step(file, item) is the body.
RECURSIVE ForEach(_, _, _)
ForEach(step(_, _), acc, items) ==
    IF items = <<>> \/ acc.raised # "" THEN acc
    ELSE ForEach(step, step(acc.f, Head(items)), Tail(items))

\* the items of the list order that satisfy test, in the order of the list
RECURSIVE Filter(_, _)
Filter(test(_), order) ==
    IF order = <<>> THEN <<>>
    ELSE (IF test(Head(order)) THEN <<Head(order)>> ELSE <<>>) \o Filter(test, Tail(order))

\* the items of a set or the keys of a dict S, in the order it lists them
RECURSIVE ListOf(_)
ListOf(S) ==
    IF S = {} THEN <<>>
    ELSE LET k == CHOOSE x \in S : TRUE IN <<k>> \o ListOf(S \ {k})

\* dimkey == key[:len(dimkey)] and key[len(dimkey):].isdigit()
IsSibling(dimkey, key) ==
    LET d == Chars(dimkey)
        c == Chars(key)
    IN /\ d = SubSeq(c, 1, IF Len(d) < Len(c) THEN Len(d) ELSE Len(c))
       /\ isdigit(SubSeq(c, Len(d) + 1, Len(c)))

\* slicedef.split(',') with eval mapped over all but the first item, the
\* default stop and the padding with None, cut to four items. items is <<>>
\* when the call raises before it has them: None + 1, or too few to unpack.
ParseSlicedef(slicedef) ==
    IF Len(slicedef) = 2 /\ slicedef[2] = <<>> THEN [raised |-> "TypeError", items |-> <<>>]
    ELSE LET s2 == IF Len(slicedef) = 2 THEN Append(slicedef, <<slicedef[2][1] + 1>>) ELSE slicedef
             s3 == SubSeq(Append(s2, <<>>), 1, 4)
         IN IF Len(s3) = 4 THEN [raised |-> "", items |-> s3]
            ELSE [raised |-> "ValueError", items |-> <<>>]

\* the body of slice_dim's loop for a variable that has dimkey
SliceVariable(self, varkey, dimkey, dmin, dmax, dstride, unlimited) ==
    LET var == self.variables[varkey]
        axis == IndexOf(getattr(var, "dimensions"), dimkey)
    IN IF axis >= Len(var.shape) THEN Raise(self, "ValueError")
       ELSE LET vout == swapaxes(getslice(swapaxes(ViewAll(var), 0, axis), dmin, dmax, dstride), 0, axis)
                newlen == vout.shape[axis + 1]
                newdim == setunlimited(Dimension_init(newlen), unlimited)
            IN Ok([self EXCEPT !.dimensions = SetItem(@, dimkey, newdim),
                               !.variables = SetItem(@, varkey, vout)])

\* history = getattr(f, 'history', ''); history += historydef; setattr(f, 'history', history)
AddHistory(self, historydef) ==
    LET history == IF "history" \in DOMAIN self.dict THEN self.dict["history"] ELSE <<>>
    IN File_setattr(self, "history", Append(history, historydef))

\* slice_dim(f, slicedef, fuzzydim): slicedef is the list of the items between
\* the commas, the first a dimension name and the others optional integers;
\* order.dims and order.vars give the order in which the dicts f.dimensions
\* and f.variables list their keys.
RECURSIVE slice_dim(_, _, _, _)
slice_dim(self, slicedef, fuzzydim, order) ==
    LET historydef == [call |-> "slice_dim", def |-> slicedef, fuzzydim |-> fuzzydim]
        parsed == ParseSlicedef(slicedef)
        dimkey == parsed.items[1]
        dmin == parsed.items[2]
        dmax == parsed.items[3]
        dstride == parsed.items[4]
        unlimited == self.dimensions[dimkey]._unlimited
        partial_check == Filter(LAMBDA key : key \in DOMAIN self.dimensions /\ IsSibling(dimkey, key),
                                order.dims)
        fuzzed == IF fuzzydim
                  THEN ForEach(LAMBDA g, dimk : slice_dim(g, <<dimk, dmin, dmax, dstride>>, TRUE, order),
                               Ok(self), partial_check)
                  ELSE Ok(self)
        varkeys == Filter(LAMBDA varkey : varkey \in DOMAIN fuzzed.f.variables, order.vars)
        sliced == ForEach(LAMBDA g, varkey :
                            IF dimkey \in Range(getattr(g.variables[varkey], "dimensions"))
                            THEN SliceVariable(g, varkey, dimkey, dmin, dmax, dstride, unlimited)
                            ELSE Ok(g),
                          fuzzed, varkeys)
    IN IF parsed.raised # "" THEN Raise(self, parsed.raised)
       ELSE IF dimkey \notin DOMAIN self.dimensions THEN Raise(self, "KeyError")
       ELSE IF sliced.raised # "" THEN sliced
       ELSE Ok(AddHistory(sliced.f, historydef))

\* the default of reduce_dim's parameter metakeys
DefaultMetakeys ==
    <<"time", "layer", "level", "latitude", "longitude", "time_bounds", "latitude_bounds",
      "longitude_bounds", "ROW", "COL", "LAY", "TFLAG", "ETFLAG">>

\* the names numpy has a reduction for, among those the model uses
NumpyFuncs == {"sum", "mean", "max", "min"}

\* sub in cs, for strings as character sequences
Contains(cs, sub) ==
    \E i \in 1..(Len(cs) - Len(sub) + 1) : SubSeq(cs, i, i + Len(sub) - 1) = sub

\* '_bounds' not in varkey and '_bnds' not in varkey
NotBoundsName(varkey) ==
    /\ ~Contains(Chars(varkey), <<"_", "b", "o", "u", "n", "d", "s">>)
    /\ ~Contains(Chars(varkey), <<"_", "b", "n", "d", "s">>)

\* the elements of an array in C order
Flat(arr) ==
    LET n == Cardinality(Indices(arr.shape))
    IN [i \in 1..n |-> arr.data[CHOOSE idx \in Indices(arr.shape) : Ravel(arr.shape, idx) = i - 1]]

\* vout[0] = var[...].min(), var[...].max(): the two values go to the last
\* axis of vout[0], which must have two places
AssignMinMax(vout, var) ==
    LET lo == Aggregate("min", Flat(var))
        hi == Aggregate("max", Flat(var))
        n == Len(vout.shape)
    IN [vout EXCEPT !.data = [idx \in Indices(vout.shape) |->
                                 IF idx[1] # 0 THEN vout.data[idx]
                                 ELSE IF idx[n] = 0 THEN lo ELSE hi]]

AssignMinMaxRaises(vout, var) ==
    \/ Cardinality(Indices(var.shape)) = 0
    \/ Len(vout.shape) < 2
    \/ vout.shape[1] = 0
    \/ vout.shape[Len(vout.shape)] # 2

\* numpy.<func>(var[(slice(None),) * (axis + 1) + (None,)], axis = axis)
ReduceKeepingAxis(var, func, axis) == reduce(newaxis_after(var, axis), func, axis)

\* mutant: the reduction runs over the new axis of length 1
ReduceVariable_wrong_axis(self, varkey, dimkey, func, metakeys) ==
    LET var == self.variables[varkey]
        axis == IndexOf(getattr(var, "dimensions"), dimkey)
        vout == reduce(newaxis_after(var, axis), func, axis + 1)
    IN Ok([self EXCEPT !.variables =
              SetItem(@, varkey, Variable_new(self.dimensions, var.dtype,
                                              getattr(var, "dimensions"), <<vout>>, <<>>))])

\* The body of reduce_dim's loop for a variable that has dimkey, without
\* weights (numweightkey is None).
ReduceVariable(self, varkey, dimkey, func, metakeys) ==
    LET var == self.variables[varkey]
        axis == IndexOf(getattr(var, "dimensions"), dimkey)
        vout == ReduceKeepingAxis(var, func, axis)
        isbounds == varkey \in Range(metakeys) /\ ~NotBoundsName(varkey)
        final == IF isbounds THEN AssignMinMax(vout, var) ELSE vout
    IN IF func \notin NumpyFuncs THEN Raise(self, "AttributeError")
       ELSE IF axis >= Len(var.shape) THEN Raise(self, "IndexError")
       ELSE IF ReduceRaises(newaxis_after(var, axis), func, axis) THEN Raise(self, "ValueError")
       ELSE IF isbounds /\ AssignMinMaxRaises(vout, var) THEN Raise(self, "ValueError")
       ELSE Ok([self EXCEPT !.variables =
                   SetItem(@, varkey, Variable_new(self.dimensions, var.dtype,
                                                   getattr(var, "dimensions"), <<final>>, <<>>))])

\* f.createDimension(dimkey, 1), unlimited again if it was
ReduceDimension(self, dimkey) ==
    LET unlimited == self.dimensions[dimkey]._unlimited
        made == createDimension(self, dimkey, 1)
    IN IF unlimited
       THEN [made EXCEPT !.dimensions = SetItem(@, dimkey, setunlimited(@[dimkey], TRUE))]
       ELSE made

\* reduce_dim(f, reducedef, fuzzydim, metakeys) for a reducedef without
\* weights: reducedef is the list of the items between the commas.
RECURSIVE reduce_dim(_, _, _, _, _)
reduce_dim(self, reducedef, fuzzydim, metakeys_given, order) ==
    LET metakeys == Filter(LAMBDA k : k \in DOMAIN self.variables, metakeys_given)
        historydef == [call |-> "reduce_dim", def |-> reducedef, fuzzydim |-> fuzzydim,
                       metakeys |-> metakeys]
        commacount == Len(reducedef) - 1
        dimkey == reducedef[1]
        func == reducedef[2]
        partial_check == Filter(LAMBDA key : key \in DOMAIN self.dimensions /\ IsSibling(dimkey, key),
                                order.dims)
        fuzzed == IF fuzzydim
                  THEN ForEach(LAMBDA g, dimk :
                                  reduce_dim(g, <<dimk>> \o Tail(reducedef), TRUE, DefaultMetakeys, order),
                               Ok(self), partial_check)
                  ELSE Ok(self)
        varkeys == Filter(LAMBDA varkey : varkey \in DOMAIN fuzzed.f.variables, order.vars)
        reduced == ForEach(LAMBDA g, varkey :
                             IF dimkey \in Range(getattr(g.variables[varkey], "dimensions"))
                             THEN ReduceVariable(g, varkey, dimkey, func, metakeys)
                             ELSE Ok(g),
                           Ok(ReduceDimension(fuzzed.f, dimkey)), varkeys)
    IN IF commacount \notin 1..3 THEN Raise(self, "UnboundLocalError")
       ELSE IF \E i \in 3..Len(reducedef) : reducedef[i] \notin DOMAIN self.variables
            THEN Raise(self, "KeyError")
       ELSE IF fuzzed.raised # "" THEN fuzzed
       ELSE IF dimkey \notin DOMAIN fuzzed.f.dimensions THEN Raise(fuzzed.f, "KeyError")
       ELSE IF reduced.raised # "" THEN reduced
       ELSE Ok(AddHistory(reduced.f, historydef))

\* |a - b| for two elements that are numbers
RDist(a, b) == Rat(Abs(a[1] * b[2] - b[1] * a[2]), a[2] * b[2])

\* abs(x - arr).argmin(): the first place, in C order, of an element of arr
\* nearest to x
argmin_abs(x, arr) ==
    LET flat == Flat(arr)
        nearer(i, j) == RLess(RDist(Int2Rat(x), flat[i]), RDist(Int2Rat(x), flat[j]))
    IN (CHOOSE i \in 1..Len(flat) :
            /\ \A j \in 1..Len(flat) : ~nearer(j, i)
            /\ \A j \in 1..(i - 1) : nearer(i, j)) - 1

\* the axes of v that newslice indexes with latidxs or lonidxs
PickedAxes(dims) == {i \in 1..Len(dims) : dims[i] \in {"latitude", "longitude"}}

\* v[newslice] raises: more indices than axes, or an index past an axis
PickRaises(v, dims, latidxs, lonidxs) ==
    \/ Len(dims) > Len(v.shape)
    \/ \E i \in PickedAxes(dims), p \in 1..Len(latidxs) :
          (IF dims[i] = "latitude" THEN latidxs[p] ELSE lonidxs[p]) >= v.shape[i]

\* v[newslice], with newslice the tuple that has latidxs where dims names
\* 'latitude', lonidxs where it names 'longitude' and slice(None) elsewhere:
\* the axes indexed by arrays give way to one axis for the points, where the
\* first of them was when they are adjacent and in front when they are not.
Pick(v, dims, latidxs, lonidxs) ==
    LET picked == PickedAxes(dims)
        n == Len(v.shape)
        kept == SelectSeq([i \in 1..n |-> i], LAMBDA i : i \notin picked)
        first == CHOOSE i \in picked : \A j \in picked : i <= j
        adjacent == \A i \in 1..n : (i >= first /\ i < first + Cardinality(picked)) => i \in picked
        pos == IF adjacent THEN first ELSE 1
        shape == Insert([i \in 1..Len(kept) |-> v.shape[kept[i]]], pos, Len(latidxs))
        rest(idx) == Drop(idx, pos)
        source(idx) == [i \in 1..n |->
                          IF i \notin picked THEN rest(idx)[IndexOf(kept, i) + 1]
                          ELSE IF dims[i] = "latitude" THEN latidxs[idx[pos] + 1]
                          ELSE lonidxs[idx[pos] + 1]]
    IN IF picked = {} THEN ViewAll(v)
       ELSE Derived(v, shape, [idx \in Indices(shape) |-> v.data[source(idx)]], v.dtype)

\* the body of extract's loop for the variable k
ExtractVariable(self, k, latidxs, lonidxs) ==
    LET v == self.variables[k]
        dims == getattr(v, "dimensions")
        coords == IF "coordinates" \in DOMAIN v.dict THEN getattr(v, "coordinates") ELSE dims
        pointed == createDimension(self, "points", Len(latidxs))
        newdims == SelectSeq(dims, LAMBDA d : d \notin {"longitude", "latitude"}) \o <<"points">>
        deleted == [pointed EXCEPT !.variables = DelItem(@, k)]
        nv == Variable_new(deleted.dimensions, v.dtype, newdims,
                           <<Pick(v, dims, latidxs, lonidxs)>>, <<>>)
        copied == FoldSeq(LAMBDA acc, ak : Variable_setattr(acc, ak, getattr(v, ak)),
                          nv, Variable_ncattrs(v))
    IN IF "longitude" \notin Range(coords) /\ "latitude" \notin Range(coords) THEN Ok(pointed)
       ELSE IF PickRaises(v, dims, latidxs, lonidxs) THEN Raise(deleted, "IndexError")
       ELSE Ok([deleted EXCEPT !.variables = SetItem(@, k, copied)])

\* extract(f, lonlat): lonlat is the list of the 'lon,lat' points as pairs of
\* integers; the value of an attribute 'coordinates' is the list of the names
\* in it.
extract(self, lonlat, order) ==
    IF "longitude" \notin DOMAIN self.variables \/ "latitude" \notin DOMAIN self.variables
    THEN Raise(self, "KeyError")
    ELSE LET lonidxs == [p \in 1..Len(lonlat) |-> argmin_abs(lonlat[p][1], self.variables["longitude"])]
             latidxs == [p \in 1..Len(lonlat) |-> argmin_abs(lonlat[p][2], self.variables["latitude"])]
             varkeys == Filter(LAMBDA varkey : varkey \in DOMAIN self.variables, order.vars)
         IN ForEach(LAMBDA g, k : ExtractVariable(g, k, latidxs, lonidxs), Ok(self), varkeys)

\* ------------------------------------------------------------- getvarpnc
\* The projection under way is the new file outf and the set coordkeys.

\* list.sort() on names: the names the model uses, in the order of their
\* characters
SortedNames == <<"nv", "u", "v", "x", "x_bounds", "y">>

\* the list xs of names after xs.sort()
sorted(xs) == FoldSeq(LAMBDA acc, k : acc \o SelectSeq(xs, LAMBDA x : x = k), <<>>, SortedNames)

\* zip(var.dimensions, var.shape)
zip(xs, ys) ==
    [i \in 1..(IF Len(xs) < Len(ys) THEN Len(xs) ELSE Len(ys)) |-> <<xs[i], ys[i]>>]

\* a copy in outf of the dimension name of f, with the length given
CopyDimension(self, outf, name, length) ==
    LET created == createDimension(outf, name, length)
    IN IF self.dimensions[name]._unlimited
       THEN [created EXCEPT !.dimensions[name] = setunlimited(@, TRUE)]
       ELSE created

\* the body of the loop over zip(var.dimensions, var.shape): a dimension
\* outf has not yet is created with the extent of the variable, and its name
\* and the bounds of the variable of its name join coordkeys
ProjectDimension(self, st, dimk, dimv) ==
    LET bounds == IF dimk \in DOMAIN self.variables /\ hasattr(self.variables[dimk], "bounds")
                  THEN {getattr(self.variables[dimk], "bounds")}
                  ELSE {}
    IN IF dimk \in DOMAIN st.outf.dimensions THEN Ok(st)
       ELSE IF dimk \notin DOMAIN self.dimensions
            THEN Raise([st EXCEPT !.outf = createDimension(@, dimk, dimv)], "KeyError")
       ELSE Ok([outf |-> CopyDimension(self, st.outf, dimk, dimv),
                coordkeys |-> st.coordkeys \cup {dimk} \cup bounds])

\* the loop over coordkeys that creates the dimensions named there
ProjectCoordinateDimensions(self, st) ==
    [st EXCEPT !.outf =
        FoldSeq(LAMBDA out, coordk :
                    IF coordk \in DOMAIN self.dimensions /\ coordk \notin DOMAIN out.dimensions
                    THEN CopyDimension(self, out, coordk, self.dimensions[coordk]._len)
                    ELSE out,
                @, ListOf(st.coordkeys))]

\* propd: the user attributes of var as keywords
Properties(var) ==
    LET names == Variable_ncattrs(var)
    IN [i \in 1..Len(names) |-> <<names[i], getattr(var, names[i])>>]

\* outf.createVariable(key, var.dtype.char, var.dimensions, values = var[...], **propd)
CopyVariable(self, outf, key) ==
    LET var == self.variables[key]
    IN createVariable(outf, key, var.dtype, getattr(var, "dimensions"), <<ViewAll(var)>>,
                      Properties(var)).f

\* the body of the loop over varkeys
ProjectVariable(self, st, varkey) ==
    LET var == self.variables[varkey]
        dimmed == ForEach(LAMBDA acc, kv : ProjectDimension(self, acc, kv[1], kv[2]), Ok(st),
                          zip(getattr(var, "dimensions"), var.shape))
        coorded == ProjectCoordinateDimensions(self, dimmed.f)
    IN IF dimmed.raised # "" THEN dimmed
       ELSE Ok([coorded EXCEPT !.outf = CopyVariable(self, @, varkey)])

\* getvarpnc(f, varkeys, coordkeys): varkeys is <<the list>>, or <<>> for
\* None; coordkeys is the set made of the list given. The call returns the new
\* file as f, and warned is <<the names skipped>> when it warned, <<>> when not.
getvarpnc(self, varkeys, coordkeys, order) ==
    LET given == IF varkeys = <<>> THEN {} ELSE Range(varkeys[1])
        kept == IF varkeys = <<>>
                THEN Filter(LAMBDA k : k \in DOMAIN self.variables \ coordkeys, order.vars)
                ELSE sorted(ListOf(given \cap DOMAIN self.variables))
        warned == IF varkeys = <<>> THEN <<>>
                  ELSE IF kept # sorted(varkeys[1]) THEN <<given \ Range(kept)>>
                  ELSE <<>>
        outf == FoldSeq(LAMBDA out, propkey : File_setattr(out, propkey, self.dict[propkey]),
                        createDimension(File_new, "nv", 2), File_ncattrs(self))
        projected == ForEach(LAMBDA st, varkey : ProjectVariable(self, st, varkey),
                             Ok([outf |-> outf, coordkeys |-> coordkeys]), kept)
        final == FoldSeq(LAMBDA out, coordkey :
                             IF coordkey \in DOMAIN self.variables
                             THEN CopyVariable(self, out, coordkey) ELSE out,
                         projected.f.outf, ListOf(projected.f.coordkeys))
    IN [f |-> IF projected.raised # "" THEN projected.f.outf ELSE final,
        raised |-> projected.raised, warned |-> warned]

\* ------------------------------------------------------ the storage backend
\* netcdf.NetCDFFile is not part of the source at hand: it is modelled from
\* the boundary the specification gives for the storage backend.

\* a file opened for writing: no dimensions, no variables, no attributes
NC_new == [dimensions |-> EmptyDict, variables |-> EmptyDict, attrs |-> EmptyDict]

\* createDimension(name, length | None): None makes the dimension growable,
\* with no place yet
NC_createDimension(nfile, name, length) ==
    [nfile EXCEPT !.dimensions =
        SetItem(@, name, IF length = <<>> THEN [_len |-> 0, _unlimited |-> TRUE]
                         ELSE [_len |-> length[1], _unlimited |-> FALSE])]

\* a value of a type the destination format has no attribute type for
Unstorable == [object |-> "unstorable"]

\* setting an attribute to this value is rejected: the value is compared as
\* printed, for it may be a number, a string or a list
NC_rejects(value) == ToString(value) = ToString(Unstorable)

\* createVariable names a dimension the file does not have
NC_createVariableRaises(nfile, dimensions) ==
    \E i \in DOMAIN dimensions : dimensions[i] \notin DOMAIN nfile.dimensions

\* createVariable(name, dtype, dims): a variable of that element type over
\* the current lengths of the dimensions
NC_createVariable(nfile, name, typecode, dimensions) ==
    LET shape == [i \in DOMAIN dimensions |-> nfile.dimensions[dimensions[i]]._len]
    IN [nfile EXCEPT !.variables =
           SetItem(@, name, [dtype |-> typecode, dimensions |-> dimensions, shape |-> shape,
                             data |-> [idx \in Indices(shape) |-> Int2Rat(0)],
                             attrs |-> EmptyDict])]

\* the element x stored with an element type: an integer type keeps the
\* whole part
Cast(typecode, x) ==
    IF typecode \in {"l", "i"} /\ x # NaN
    THEN Int2Rat((IF x[1] < 0 THEN -1 ELSE 1) * (Abs(x[1]) \div x[2]))
    ELSE x

\* nvar[:] = values cannot be done: another rank, or another extent along a
\* dimension that does not grow
NC_assignRaises(nfile, name, values) ==
    LET nvar == nfile.variables[name]
    IN \/ Len(values.shape) # Len(nvar.shape)
       \/ \E i \in DOMAIN nvar.shape :
             /\ ~nfile.dimensions[nvar.dimensions[i]]._unlimited
             /\ values.shape[i] # nvar.shape[i]

\* nvar[:] = values: the elements are stored with the variable's type, and a
\* growable dimension grows to the extent of the values
NC_assign(nfile, name, values) ==
    LET nvar == nfile.variables[name]
        grown == [d \in DOMAIN nfile.dimensions |->
                    LET places == {values.shape[i] : i \in {j \in DOMAIN nvar.dimensions :
                                                               nvar.dimensions[j] = d}}
                        old == nfile.dimensions[d]
                    IN IF old._unlimited /\ \E n \in places : n > old._len
                       THEN [old EXCEPT !._len = CHOOSE n \in places : \A m \in places : m <= n]
                       ELSE old]
    IN [nfile EXCEPT !.dimensions = grown,
                     !.variables = SetItem(@, name,
                         [nvar EXCEPT !.shape = values.shape,
                                      !.data = [idx \in Indices(values.shape) |->
                                                   Cast(nvar.dtype, values.data[idx])]])]

\* ------------------------------------------------------------ Pseudo2NetCDF
\* A conversion under way is the destination, the set of the warnings given
\* so far, each the scope and the name of an attribute, and the list of the
\* calls made to the backend so far, each the name of the call and what it
\* is made on.

\* one setattr on the destination (scope "global") or on its variable scope,
\* for each of the keys
SetattrCalls(scope, keys) ==
    LET listed == ListOf(keys) IN [i \in 1..Len(listed) |-> <<"setattr", scope, listed[i]>>]

\* Pseudo2NetCDF.addDimensions
addDimensions(pfile, conv, order) ==
    FoldSeq(LAMBDA c, d :
                LET v == pfile.dimensions[d]
                IN [c EXCEPT !.nfile = NC_createDimension(@, d, IF v._unlimited THEN <<>> ELSE <<v._len>>),
                             !.calls = Append(@, <<"createDimension", d>>)],
            conv, Filter(LAMBDA d : d \in DOMAIN pfile.dimensions, order.dims))

\* the keys of __dict__ that pass ignore_global_properties and ignore_global_re
GlobalProperties(pfile) ==
    {k \in DOMAIN pfile.dict \cup {"dimensions", "variables", "_ncattrs"} :
        k \notin {"variables", "dimensions"} /\ ~IsPrivate(k)}

\* Pseudo2NetCDF.addGlobalProperties
addGlobalProperties(pfile, conv) ==
    LET keys == GlobalProperties(pfile)
    IN [conv EXCEPT !.nfile.attrs = [k \in DOMAIN @ \cup {j \in keys : ~NC_rejects(pfile.dict[j])} |->
                                        IF k \in keys THEN pfile.dict[k] ELSE @[k]],
                    !.warned = @ \cup {<<"global", k>> : k \in {j \in keys : NC_rejects(pfile.dict[j])}},
                    !.calls = @ \o SetattrCalls("global", keys)]

\* the keys of __dict__ that pass ignore_variable_properties and ignore_variable_re
VariableProperties(var) ==
    {k \in DOMAIN var.dict : k \notin {"typecode", "dimensions"} /\ ~IsPrivate(k)}

\* Pseudo2NetCDF.addVariableProperties, for the variable k
addVariableProperties(var, conv, k) ==
    LET keys == VariableProperties(var)
    IN [conv EXCEPT !.nfile.variables[k].attrs =
                        [a \in {j \in keys : ~NC_rejects(var.dict[j])} |-> var.dict[a]],
                    !.warned = @ \cup {<<k, a>> : a \in {j \in keys : NC_rejects(var.dict[j])}},
                    !.calls = @ \o SetattrCalls(k, keys)]

\* Pseudo2NetCDF.addVariableData
addVariableData(pfile, conv, k) ==
    LET called == [conv EXCEPT !.calls = Append(@, <<"assign", k>>)]
    IN IF NC_assignRaises(conv.nfile, k, pfile.variables[k]) THEN Raise(called, "ValueError")
       ELSE Ok([called EXCEPT !.nfile = NC_assign(@, k, ViewAll(pfile.variables[k]))])

\* Pseudo2NetCDF.addVariable
addVariable(pfile, conv, k, data) ==
    LET var == pfile.variables[k]
        typecode == IF "typecode" \in DOMAIN var.dict THEN getattr(var, "typecode") ELSE var.dtype
        called == [conv EXCEPT !.calls = Append(@, <<"createVariable", k>>)]
        defined == addVariableProperties(var,
                       [called EXCEPT !.nfile = NC_createVariable(@, k, typecode, getattr(var, "dimensions"))], k)
    IN IF NC_createVariableRaises(conv.nfile, getattr(var, "dimensions")) THEN Raise(called, "KeyError")
       ELSE IF data THEN addVariableData(pfile, defined, k)
       ELSE Ok(defined)

\* mutant: the data of each variable is written as it is defined, whatever
\* datafirst says
addVariables_always_interleaved(pfile, conv, datafirst, order) ==
    ForEach(LAMBDA c, k : addVariable(pfile, c, k, TRUE), Ok(conv),
            Filter(LAMBDA k : k \in DOMAIN pfile.variables, order.vars))

\* Pseudo2NetCDF.addVariables
addVariables(pfile, conv, datafirst, order) ==
    LET keys == Filter(LAMBDA k : k \in DOMAIN pfile.variables, order.vars)
        defined == ForEach(LAMBDA c, k : addVariable(pfile, c, k, datafirst), Ok(conv), keys)
    IN IF datafirst THEN defined
       ELSE ForEach(LAMBDA c, k : addVariableData(pfile, c, k), defined, keys)

\* Pseudo2NetCDF(datafirst).convert(pfile): f is the conversion, its
\* destination a new file of the backend
convert(pfile, datafirst, order) ==
    addVariables(pfile,
                 addGlobalProperties(pfile, addDimensions(pfile, [nfile |-> NC_new, warned |-> {}, calls |-> <<>>],
                                                         order)),
                 datafirst, order)

\* PseudoNetCDFVariables.__init__(func, keys): keys is the list __keys, stored
\* the mapping of the underlying dict, calls counts the calls of the factory so far.
Variables_init(keys) == [keys |-> keys, stored |-> EmptyDict, calls |-> 0]

\* what the caller's factory returns for key k
const(k) == [made_for |-> k]

\* PseudoNetCDFVariables.keys
Variables_keys(self) == (DOMAIN self.stored) \cup Range(self.keys)

\* mutant: the value made is kept in the dict
Variables_missing_caching(self, k) ==
    IF k \in Variables_keys(self)
    THEN [self |-> [self EXCEPT !.calls = @ + 1, !.stored = SetItem(@, k, const(k))],
          ret |-> <<const(k)>>, raised |-> ""]
    ELSE [self |-> self, ret |-> <<>>, raised |-> "KeyError"]

\* PseudoNetCDFVariables.__missing__
Variables_missing(self, k) ==
    IF k \in Variables_keys(self)
    THEN [self |-> [self EXCEPT !.calls = @ + 1], ret |-> <<const(k)>>, raised |-> ""]
    ELSE [self |-> self, ret |-> <<>>, raised |-> "KeyError"]

\* self[k]: dict.__getitem__, which calls __missing__ for a key not stored
Variables_getitem(self, k) ==
    IF k \in DOMAIN self.stored
    THEN [self |-> self, ret |-> <<self.stored[k]>>, raised |-> ""]
    ELSE Variables_missing(self, k)

\* PseudoNetCDFVariables.addkey
Variables_addkey(self, k) == [self EXCEPT !.keys = Append(@, k)]

\* self[k] = v
Variables_setitem(self, k, v) == [self EXCEPT !.stored = SetItem(@, k, v)]

NoCall == [op |-> "none"]

\* --------------------------------------------------- the array specification

\* user attribute names: 'max' is also a method of ndarray, '_FillValue' is private
VarAttrNames == {"units", "long_name", "max", "_FillValue"}

VarAttrValues == {"ppbv", "m"}

DimNames == {"x", "x0"}

\* the keyword lists a caller passes to __new__
KwdLists == {<<>>, <<<<"units", "ppbv">>>>, <<<<"long_name", "m">>, <<"units", "ppbv">>>>}

\* A parent made by __new__ from a value array whose rank is the number of
\* dimension names; nothing is derived yet.
InitVar ==
    /\ \E dims \in {<<"x">>, <<"y", "x">>}, kwds \in KwdLists :
         \E shape \in [1..Len(dims) -> 1..MaxLen] :
            pvar = Variable_new(EmptyDict, "f", dims, <<arange(shape, 0)>>, kwds)
    /\ dvar = pvar
    /\ nderiv = [n |-> 0, reduced |-> 0, set |-> 0]
    /\ reg = Variables_init(<<>>)
    /\ f = File_new
    /\ stage = "dimensions"
    /\ last = NoCall

\* setattr(pvar, k, v), before anything is derived from it
ParentSetattr ==
    /\ nderiv.n = 0
    /\ nderiv.set < MaxSetattr
    /\ \E k \in VarAttrNames, v \in VarAttrValues :
         pvar' = Variable_setattr(pvar, k, v)
    /\ dvar' = pvar'
    /\ nderiv' = [nderiv EXCEPT !.set = @ + 1]
    /\ UNCHANGED <<reg, f, stage, last>>

\* a derivation that keeps the rank: dvar[...], dvar.swapaxes, dvar[a:b:c]
DeriveSameRank ==
    /\ nderiv.n < MaxDerive
    /\ \/ dvar' = ViewAll(dvar)
       \/ \E a \in 0..(Len(dvar.shape) - 1) : dvar' = swapaxes(dvar, 0, a)
       \/ /\ Len(dvar.shape) > 0
          /\ \E a \in {<<>>, <<1>>}, c \in {<<>>, <<2>>} : dvar' = getslice(dvar, a, <<>>, c)
    /\ nderiv' = [nderiv EXCEPT !.n = @ + 1]
    /\ UNCHANGED <<pvar, reg, f, stage, last>>

\* a derivation that lowers the rank: dvar[0] and numpy.sum(dvar, axis)
DeriveLowerRank ==
    /\ nderiv.n < MaxDerive
    /\ \/ /\ Len(dvar.shape) >= 2
          /\ dvar.shape[1] > 0
          /\ dvar' = getitem0(dvar, 0)
       \/ \E a \in 0..(Len(dvar.shape) - 1) : dvar' = reduce(dvar, "sum", a)
    /\ nderiv' = [nderiv EXCEPT !.n = @ + 1, !.reduced = @ + 1]
    /\ UNCHANGED <<pvar, reg, f, stage, last>>

NextVar == ParentSetattr \/ DeriveSameRank \/ DeriveLowerRank

SpecVar == InitVar /\ [][NextVar]_vars

\* C2: after any chain of rank-preserving derivations the derived array has
\* the parent's dimensions tuple, the parent's ncattrs() (same names in the
\* same order, 'dimensions' not among them unless the parent lists it) and
\* the parent's value for every listed attribute.
C2_DerivedKeepsAttributes ==
    (nderiv.n >= 1 /\ nderiv.reduced = 0) =>
        /\ getattr(dvar, "dimensions") = getattr(pvar, "dimensions")
        /\ Variable_ncattrs(dvar) = Variable_ncattrs(pvar)
        /\ \A i \in 1..Len(Variable_ncattrs(pvar)) :
             LET k == Variable_ncattrs(pvar)[i]
             IN hasattr(dvar, k) /\ getattr(dvar, k) = getattr(pvar, k)

C2_Witness ==
    /\ nderiv.n >= 2
    /\ nderiv.reduced = 0
    /\ Len(Variable_ncattrs(pvar)) >= 2
    /\ dvar.shape # pvar.shape

VarNames == {"v", "time_bounds"}

\* the orders in which a dict with these keys may list them
RECURSIVE Listings(_)
Listings(keys) ==
    IF keys = {} THEN {<<>>}
    ELSE UNION {{<<k>> \o rest : rest \in Listings(keys \ {k})} : k \in keys}

\* the dimension tuples a variable of each name is created with
VarDims(name) ==
    IF name = "time_bounds" THEN {<<"x", "x0">>}
    ELSE {<<"x">>, <<"x0">>, <<"x", "x0">>, <<"x0", "x">>}

\* The orders in which the dicts of a file may list their keys. No dimension
\* of DimNames has two siblings, so no call visits two dimensions and one
\* listing of the dimensions stands for all.
Orders(self) ==
    {[dims |-> CHOOSE ds \in Listings(DOMAIN self.dimensions) : TRUE, vars |-> vs] :
        vs \in Listings(DOMAIN self.variables)}

\* the metakeys arguments tried: the default and none; they differ only for
\* a file that has one of the default's names
MetakeyChoices(self) ==
    {DefaultMetakeys} \cup {<<>> : k \in Range(DefaultMetakeys) \cap DOMAIN self.variables}

\* the slice definitions tried on every dimension: 'dim,start',
\* 'dim,start,stop' and 'dim,start,stop,stride'
SliceArgs ==
    {<<<<0>>>>, <<<<-1>>>>, <<<<1>>, <<MaxLen>>>>, <<<<0>>, <<MaxLen>>, <<2>>>>}
        \cup {<<<<0>>, <<n>>, <<1>>>> : n \in 1..MaxLen}

\* value arrays a caller may pass for a dimension tuple: the extent along a
\* dimension the file has is that dimension's length
ValueShapes(self, dims) ==
    {shape \in [1..Len(dims) -> 1..MaxLen] :
        \A i \in 1..Len(dims) :
            shape[i] = IF dims[i] \in DOMAIN self.dimensions
                       THEN self.dimensions[dims[i]]._len ELSE MaxLen}

\* A file is built in stages, so that a file reached by calls in another
\* order is not explored twice: its dimensions, then its variables, then a
\* dimension created again with another length, then one attribute, then one
\* transformation.
Stages == <<"dimensions", "variables", "again", "attributes", "transform", "done">>

StageNo(s) == CHOOSE i \in 1..Len(Stages) : Stages[i] = s

Init ==
    /\ f = File_new
    /\ last = NoCall
    /\ stage = "dimensions"
    /\ pvar = zeros(<<>>, "f")
    /\ dvar = pvar
    /\ nderiv = [n |-> 0, reduced |-> 0, set |-> 0]
    /\ reg = Variables_init(<<>>)

\* the caller goes on to a later stage
Proceed ==
    /\ \E s \in {"variables", "again", "attributes", "transform"} :
         /\ StageNo(s) > StageNo(stage)
         /\ stage' = s
    /\ last' = NoCall
    /\ UNCHANGED <<f, pvar, dvar, nderiv, reg>>

\* f.createDimension(name, length)
CreateDimension ==
    /\ \E name \in DimNames, length \in 1..MaxLen :
         /\ \/ stage = "dimensions"
            \/ stage = "again" /\ name = "x" /\ last.op # "createDimension"
         /\ f' = createDimension(f, name, length)
         /\ last' = [op |-> "createDimension", args |-> <<name>>, raised |-> ""]
    /\ UNCHANGED <<stage, pvar, dvar, nderiv, reg>>

\* f.dimensions[name].setunlimited(True)
SetUnlimited ==
    /\ stage = "dimensions"
    /\ \E name \in DOMAIN f.dimensions \cap {"x"} :
         /\ f' = [f EXCEPT !.dimensions = SetItem(@, name, setunlimited(@[name], TRUE))]
         /\ last' = [op |-> "setunlimited", args |-> <<name>>, raised |-> ""]
    /\ UNCHANGED <<stage, pvar, dvar, nderiv, reg>>

\* f.createVariable(name, 'f', dims) and
\* f.createVariable(name, 'f', dims, values = ..., units = 'ppbv')
CreateVariable ==
    /\ stage = "variables"
    /\ \E name \in VarNames : \E dims \in VarDims(name) :
         \E values \in (IF name = "v" THEN {<<>>} ELSE {})
                            \cup {<<arange(shape, 1)>> : shape \in ValueShapes(f, dims)} :
            LET kwds == IF values = <<>> THEN <<>> ELSE <<<<"units", "ppbv">>>>
                r == createVariable(f, name, "f", dims, values, kwds)
            IN /\ f' = r.f
               /\ last' = [op |-> "createVariable", args |-> <<name, dims, values # <<>>>>,
                           raised |-> r.raised, before |-> f]
    /\ UNCHANGED <<stage, pvar, dvar, nderiv, reg>>

\* setattr(f, k, v)
SetAttr ==
    /\ stage = "attributes"
    /\ last.op # "setattr"
    /\ \E k \in {"fish", "history"} :
         /\ f' = File_setattr(f, k, <<>>)
         /\ last' = [op |-> "setattr", args |-> <<k>>, raised |-> ""]
    /\ UNCHANGED <<stage, pvar, dvar, nderiv, reg>>

\* slice_dim(f, slicedef, fuzzydim)
SliceDim ==
    /\ stage = "transform"
    /\ \E dim \in DimNames, args \in SliceArgs, fuzzydim \in BOOLEAN, order \in Orders(f) :
         LET r == slice_dim(f, <<dim>> \o args, fuzzydim, order)
         IN /\ f' = r.f
            /\ last' = [op |-> "slice_dim", args |-> <<<<dim>> \o args, fuzzydim>>,
                        raised |-> r.raised, before |-> f]
    /\ stage' = "done"
    /\ UNCHANGED <<pvar, dvar, nderiv, reg>>

\* reduce_dim(f, reducedef, fuzzydim, metakeys)
ReduceDim ==
    /\ stage = "transform"
    /\ \E dim \in DimNames, func \in {"sum", "mean", "max"}, fuzzydim \in BOOLEAN,
          metakeys \in MetakeyChoices(f), order \in Orders(f) :
         LET r == reduce_dim(f, <<dim, func>>, fuzzydim, metakeys, order)
         IN /\ f' = r.f
            /\ last' = [op |-> "reduce_dim", args |-> <<<<dim, func>>, fuzzydim, metakeys>>,
                        raised |-> r.raised, before |-> f]
    /\ stage' = "done"
    /\ UNCHANGED <<pvar, dvar, nderiv, reg>>

Next ==
    Proceed \/ CreateDimension \/ SetUnlimited \/ CreateVariable \/ SetAttr \/ SliceDim \/ ReduceDim

Spec == Init /\ [][Next]_vars

\* the names of the entries of a file's __dict__ that are user attributes
UserAttrNames(self) ==
    {k \in DOMAIN self.dict : ~IsPrivate(k) /\ k \notin {"dimensions", "variables", "groups"}}

\* C4: ncattrs() of a file lists every user attribute once and lists no
\* reserved or private name, whatever was assigned and assigned again, the
\* 'history' that slice_dim and reduce_dim assign included.
C4_NcattrsListsEachNameOnce ==
    LET names == File_ncattrs(f)
    IN /\ \A i, j \in DOMAIN names : names[i] = names[j] => i = j
       /\ Range(names) = UserAttrNames(f)

\* C9: createVariable with a dimension tuple that names a dimension the file
\* does not have fails and leaves the variables as they were, with and
\* without values; a call without values that succeeds registers a variable
\* whose shape is the lengths of the named dimensions, in place of any
\* variable of that name.
C9_UnknownDimensionFailsAtCreation ==
    last.op = "createVariable" =>
        LET name == last.args[1]
            dims == last.args[2]
            known == \A i \in DOMAIN dims : dims[i] \in DOMAIN last.before.dimensions
        IN /\ ~known => (last.raised # "" /\ f.variables = last.before.variables)
           /\ (last.raised = "" /\ ~last.args[3]) =>
                 /\ name \in DOMAIN f.variables
                 /\ f.variables[name].shape =
                      [i \in DOMAIN dims |-> last.before.dimensions[dims[i]]._len]

\* the number of indices [start:stop:stride] selects from 0..n-1
SelectedCount(n, start, stop, stride) ==
    Cardinality({i \in 0..(n - 1) :
        LET lo == IF start < 0 THEN start + n ELSE start
            hi == IF stop < 0 THEN stop + n ELSE stop
        IN i >= lo /\ i < hi /\ (i - lo) % stride = 0})

\* C10: slice_dim(f, 'dim,start,stop,stride') on a dimension the file has,
\* referenced by a variable or not, leaves that dimension with as many
\* places as the slice selects and with its unlimited flag, leaves every
\* variable that has the dimension with that extent along it and with its
\* other extents, dimension tuple and attributes, and leaves every other
\* dimension alone; 'dim,start' selects one place.
C10_SlicedDimensionHasSelectedLength ==
    (last.op = "slice_dim" /\ last.raised = "" /\ last.args[1][1] \in DOMAIN last.before.dimensions) =>
        LET def == last.args[1]
            dim == def[1]
            old == last.before.dimensions[dim]
            start == def[2][1]
            stop == IF Len(def) >= 3 THEN def[3][1] ELSE start + 1
            stride == IF Len(def) >= 4 THEN def[4][1] ELSE 1
            count == IF Len(def) = 2 /\ start \in 0..(old._len - 1) THEN 1
                     ELSE SelectedCount(old._len, start, stop, stride)
        IN /\ f.dimensions[dim] = [_len |-> count, _unlimited |-> old._unlimited]
           /\ \A k \in DOMAIN last.before.dimensions \ {dim} :
                 f.dimensions[k] = last.before.dimensions[k]
           /\ \A varkey \in DOMAIN last.before.variables :
                 LET was == last.before.variables[varkey]
                     now == f.variables[varkey]
                     wasdims == getattr(was, "dimensions")
                 IN dim \in Range(wasdims) =>
                      /\ getattr(now, "dimensions") = wasdims
                      /\ Variable_ncattrs(now) = Variable_ncattrs(was)
                      /\ \A k \in Range(Variable_ncattrs(was)) : getattr(now, k) = getattr(was, k)
                      /\ \A i \in DOMAIN wasdims :
                            now.shape[i] = IF wasdims[i] = dim THEN count ELSE was.shape[i]

\* two arrays with the same dimension tuple, shape, values and user attributes
SameVariable(now, was) ==
    /\ getattr(now, "dimensions") = getattr(was, "dimensions")
    /\ now.shape = was.shape
    /\ now.data = was.data
    /\ Variable_ncattrs(now) = Variable_ncattrs(was)
    /\ \A k \in Range(Variable_ncattrs(was)) : getattr(now, k) = getattr(was, k)

\* two files with the same variables, in that sense
SameVariables(now, was) ==
    /\ DOMAIN now.variables = DOMAIN was.variables
    /\ \A varkey \in DOMAIN was.variables : SameVariable(now.variables[varkey], was.variables[varkey])

\* the call last is slice_dim(f, 'dim,0,N,1') for a dimension of length N
IsWholeSlice(call) ==
    /\ call.op = "slice_dim"
    /\ call.args[1][1] \in DOMAIN call.before.dimensions
    /\ Tail(call.args[1]) = <<<<0>>, <<call.before.dimensions[call.args[1][1]]._len>>, <<1>>>>

\* C7 as stated: slice_dim(f, 'dim,0,N,1') on a dimension of length N leaves
\* the dimensions, the variables and the file attributes as they were.
C7_Original_WholeSliceChangesNothing ==
    IsWholeSlice(last) =>
        /\ last.raised = ""
        /\ f.dimensions = last.before.dimensions
        /\ SameVariables(f, last.before)
        /\ File_ncattrs(f) = File_ncattrs(last.before)
        /\ f.dict = last.before.dict

\* every variable has, along each axis, the length of the dimension named there
Consistent(self) ==
    \A varkey \in DOMAIN self.variables :
        LET var == self.variables[varkey]
            dims == getattr(var, "dimensions")
        IN /\ Len(dims) = Len(var.shape)
           /\ \A i \in DOMAIN dims :
                /\ dims[i] \in DOMAIN self.dimensions
                /\ var.shape[i] = self.dimensions[dims[i]]._len

\* the dimensions of the file that fuzzy matching takes for siblings of dimkey
Siblings(self, dimkey) == {key \in DOMAIN self.dimensions : IsSibling(dimkey, key)}

\* C7: slice_dim(f, 'dim,0,N,1', fuzzydim) on a dimension of length N, in a
\* file whose variables have the lengths of their dimensions and, with
\* fuzzydim on, whose siblings of dim are no longer than N, returns and
\* leaves the dimensions, the variables (dimension tuples, shapes, values,
\* attributes) and every file attribute but 'history' as they were; 'history'
\* keeps what it held and ends with the description of this call.
C7_WholeSliceChangesHistoryOnly ==
    (/\ IsWholeSlice(last)
     /\ Consistent(last.before)
     /\ last.args[2] => \A key \in Siblings(last.before, last.args[1][1]) :
                           last.before.dimensions[key]._len
                               <= last.before.dimensions[last.args[1][1]]._len) =>
        LET was == IF "history" \in DOMAIN last.before.dict THEN last.before.dict["history"] ELSE <<>>
            now == f.dict["history"]
        IN /\ last.raised = ""
           /\ f.dimensions = last.before.dimensions
           /\ SameVariables(f, last.before)
           /\ DOMAIN f.dict = DOMAIN last.before.dict \cup {"history"}
           /\ \A k \in DOMAIN last.before.dict \ {"history"} : f.dict[k] = last.before.dict[k]
           /\ Len(now) > Len(was)
           /\ SubSeq(now, 1, Len(was)) = was
           /\ now[Len(now)] = [call |-> "slice_dim", def |-> last.args[1], fuzzydim |-> last.args[2]]

\* a whole slice with fuzzy matching of a dimension of two places that has a
\* sibling, in a file with a variable along both that carries an attribute
C7_Witness ==
    /\ IsWholeSlice(last)
    /\ Consistent(last.before)
    /\ last.args[2]
    /\ last.args[1][1] = "x"
    /\ last.before.dimensions["x"]._len = 2
    /\ "x0" \in DOMAIN last.before.dimensions
    /\ last.before.dimensions["x0"]._len = 2
    /\ "fish" \in DOMAIN last.before.dict
    /\ "v" \in DOMAIN last.before.variables
    /\ getattr(last.before.variables["v"], "dimensions") = <<"x0", "x">>
    /\ Variable_ncattrs(last.before.variables["v"]) = <<"units">>
    /\ Len(f.dict["history"]) = 2

\* the call last is an unweighted reduce_dim(f, 'dim,func', ...) that
\* returned, for a dimension the file has
IsReduction(call) ==
    /\ call.op = "reduce_dim"
    /\ call.raised = ""
    /\ call.args[1][1] \in DOMAIN call.before.dimensions

\* what the claim asks of the reduced dimension and of the variables that
\* have it and are not metadata
ReducedAlong(now, call) ==
    LET dim == call.args[1][1]
        func == call.args[1][2]
        old == call.before.dimensions[dim]
        metakeys == Range(call.args[3]) \cap DOMAIN call.before.variables
    IN /\ now.dimensions[dim] = [_len |-> 1, _unlimited |-> old._unlimited]
       /\ \A varkey \in DOMAIN call.before.variables \ metakeys :
             LET was == call.before.variables[varkey]
                 var == now.variables[varkey]
                 dims == getattr(was, "dimensions")
                 axis == CHOOSE i \in DOMAIN dims : dims[i] = dim /\ \A j \in 1..(i - 1) : dims[j] # dim
             IN dim \in Range(dims) =>
                  /\ getattr(var, "dimensions") = dims
                  /\ var.shape = [was.shape EXCEPT ![axis] = 1]
                  /\ \A idx \in Indices(var.shape) :
                        var.data[idx] =
                            Aggregate(func, [j \in 1..was.shape[axis] |->
                                                was.data[[idx EXCEPT ![axis] = j - 1]]])

GeoDimNames == {"longitude", "latitude", "time"}

GeoVarNames == {"longitude", "latitude", "T"}

\* the dimension tuples a variable of each name is created with
GeoVarDims(name) ==
    IF name = "T"
    THEN {<<"time">>, <<"time", "latitude", "longitude">>, <<"latitude", "time", "longitude">>}
    ELSE {<<name>>}

\* the keywords a variable of each name is created with: a data variable may
\* name its coordinate variables
GeoKwds(name) ==
    IF name = "T" THEN {<<>>, <<<<"coordinates", <<"longitude", "latitude">>>>>>} ELSE {<<>>}

\* the value arrays for a dimension tuple: one, of the lengths of the named
\* dimensions, when the file has them all
GeoValues(self, dims) ==
    IF \A i \in DOMAIN dims : dims[i] \in DOMAIN self.dimensions
    THEN {<<arange(NewShape(self.dimensions, dims), 1)>>}
    ELSE {}

\* the lists of points asked for
LonLats == {<<<<1, 1>>>>, <<<<MaxLen, 1>>, <<1, MaxLen>>>>}

\* one listing of the variables and the opposite one
GeoOrders(self) ==
    LET vs == CHOOSE l \in Listings(DOMAIN self.variables) : TRUE
    IN {[dims |-> CHOOSE ds \in Listings(DOMAIN self.dimensions) : TRUE, vars |-> l] :
           l \in {vs, [i \in DOMAIN vs |-> vs[Len(vs) + 1 - i]]}}

InitExtract ==
    /\ f = File_new
    /\ last = NoCall
    /\ stage = "dimensions"
    /\ pvar = zeros(<<>>, "f")
    /\ dvar = pvar
    /\ nderiv = [n |-> 0, reduced |-> 0, set |-> 0]
    /\ reg = Variables_init(<<>>)

\* the caller goes on to create variables, or to transform the file
GeoProceed ==
    /\ \E s \in {"variables", "transform"} :
         /\ StageNo(s) > StageNo(stage)
         /\ stage' = s
    /\ last' = NoCall
    /\ UNCHANGED <<f, pvar, dvar, nderiv, reg>>

\* f.createDimension(name, length)
GeoCreateDimension ==
    /\ stage = "dimensions"
    /\ \E name \in GeoDimNames, length \in 1..MaxLen :
         /\ f' = createDimension(f, name, length)
         /\ last' = [op |-> "createDimension", args |-> <<name>>, raised |-> ""]
    /\ UNCHANGED <<stage, pvar, dvar, nderiv, reg>>

\* f.createVariable(name, 'f', dims, **kwds) and
\* f.createVariable(name, 'f', dims, values = ..., **kwds)
GeoCreateVariable ==
    /\ stage = "variables"
    /\ \E name \in GeoVarNames : \E dims \in GeoVarDims(name), kwds \in GeoKwds(name) :
         \E values \in (IF name = "T" THEN {<<>>} ELSE {}) \cup GeoValues(f, dims) :
            LET r == createVariable(f, name, "f", dims, values, kwds)
            IN /\ f' = r.f
               /\ last' = [op |-> "createVariable", args |-> <<name, dims, values # <<>>>>,
                           raised |-> r.raised, before |-> f]
    /\ UNCHANGED <<stage, pvar, dvar, nderiv, reg>>

\* slice_dim(f, 'dim,0') and slice_dim(f, 'dim,0,1,1')
GeoSliceDim ==
    /\ stage = "transform"
    /\ last.op = "none"
    /\ \E dim \in GeoDimNames, args \in {<<<<0>>>>, <<<<0>>, <<1>>, <<1>>>>}, order \in GeoOrders(f) :
         LET r == slice_dim(f, <<dim>> \o args, TRUE, order)
         IN /\ f' = r.f
            /\ last' = [op |-> "slice_dim", args |-> <<<<dim>> \o args, TRUE>>,
                        raised |-> r.raised, before |-> f]
    /\ UNCHANGED <<stage, pvar, dvar, nderiv, reg>>

\* reduce_dim(f, 'dim,mean')
GeoReduceDim ==
    /\ stage = "transform"
    /\ last.op = "none"
    /\ \E dim \in GeoDimNames, order \in GeoOrders(f) :
         LET r == reduce_dim(f, <<dim, "mean">>, TRUE, DefaultMetakeys, order)
         IN /\ f' = r.f
            /\ last' = [op |-> "reduce_dim", args |-> <<<<dim, "mean">>, TRUE, DefaultMetakeys>>,
                        raised |-> r.raised, before |-> f]
    /\ UNCHANGED <<stage, pvar, dvar, nderiv, reg>>

\* extract(f, lonlat)
Extract ==
    /\ stage = "transform"
    /\ \E lonlat \in LonLats, order \in GeoOrders(f) :
         LET r == extract(f, lonlat, order)
         IN /\ f' = r.f
            /\ last' = [op |-> "extract", args |-> <<lonlat>>, raised |-> r.raised, before |-> f]
    /\ stage' = "done"
    /\ UNCHANGED <<pvar, dvar, nderiv, reg>>

NextExtract ==
    GeoProceed \/ GeoCreateDimension \/ GeoCreateVariable \/ GeoSliceDim \/ GeoReduceDim \/ Extract

SpecExtract == InitExtract /\ [][NextExtract]_vars

\* C1: whatever was created, sliced, reduced and extracted, every variable
\* of the file has as many dimension names as axes, and the file has a
\* dimension of each of these names.
C1_RankMatchesDimensions ==
    \A varkey \in DOMAIN f.variables :
        LET var == f.variables[varkey]
            dims == getattr(var, "dimensions")
        IN /\ Len(dims) = Len(var.shape)
           /\ \A i \in DOMAIN dims : dims[i] \in DOMAIN f.dimensions

\* the coordinate references of the variable v: coords of extract
CoordinateReferences(v) ==
    IF "coordinates" \in DOMAIN v.dict THEN getattr(v, "coordinates") ELSE getattr(v, "dimensions")

\* C12: after extract(f, points) has returned on a file whose variables have
\* the lengths of their dimensions, the file has a dimension 'points' with
\* one place per requested point; every variable whose coordinate references
\* include 'longitude' or 'latitude' has the dimension tuple of the original
\* without 'longitude' and 'latitude' and with 'points' at the end, as many
\* axes as that tuple has names, along each axis the length of the dimension
\* named there, and the user attributes of the original; every other
\* variable is as it was.
C12_ExtractedAlongPoints ==
    (last.op = "extract" /\ last.raised = "" /\ Consistent(last.before)) =>
        LET src == last.before
        IN /\ "points" \in DOMAIN f.dimensions
           /\ f.dimensions["points"]._len = Len(last.args[1])
           /\ DOMAIN f.variables = DOMAIN src.variables
           /\ \A k \in DOMAIN src.variables :
                 LET v == src.variables[k]
                     nv == f.variables[k]
                     newdims == getattr(nv, "dimensions")
                 IN IF {"longitude", "latitude"} \cap Range(CoordinateReferences(v)) = {}
                    THEN nv = v
                    ELSE /\ newdims = SelectSeq(getattr(v, "dimensions"),
                                                LAMBDA d : d \notin {"longitude", "latitude"}) \o <<"points">>
                         /\ Len(nv.shape) = Len(newdims)
                         /\ \A i \in DOMAIN nv.shape :
                               /\ newdims[i] \in DOMAIN f.dimensions
                               /\ nv.shape[i] = f.dimensions[newdims[i]]._len
                         /\ Variable_ncattrs(nv) = Variable_ncattrs(v)
                         /\ \A ak \in Range(Variable_ncattrs(v)) : getattr(nv, ak) = getattr(v, ak)

\* ------------------------------------------- the projection specification
\* A file is built with a data variable v, a coordinate variable x that may
\* name its bounds, and a bounds variable; then getvarpnc is called on it.

ProjDimNames == {"x", "y", "nv"}

ProjVarNames == {"v", "x", "x_bounds"}

\* the dimension tuples a variable of each name is created with
ProjVarDims(name) ==
    IF name = "v" THEN {<<"x">>, <<"y", "x">>}
    ELSE IF name = "x" THEN {<<"x">>}
    ELSE {<<"x", "nv">>, <<"x", "y">>}

\* the keywords a variable of each name is created with
ProjKwds(name) ==
    IF name = "x" THEN {<<>>, <<<<"bounds", "x_bounds">>>>} ELSE {<<>>}

\* the varkeys arguments tried: None, and lists with a name the file may
\* lack ('u' is never a variable)
VarkeyChoices == {<<>>, <<<<>>>>, <<<<"v">>>>, <<<<"v", "u">>>>, <<<<"x_bounds", "v">>>>}

\* the coordkeys arguments tried
CoordkeyChoices == {{}, {"y"}, {"x_bounds"}}

\* the caller goes on to a later stage
ProjProceed ==
    /\ \E s \in {"variables", "attributes", "transform"} :
         /\ StageNo(s) > StageNo(stage)
         /\ stage' = s
    /\ last' = NoCall
    /\ UNCHANGED <<f, pvar, dvar, nderiv, reg>>

\* f.createDimension(name, length)
ProjCreateDimension ==
    /\ stage = "dimensions"
    /\ \E name \in ProjDimNames, length \in 1..MaxLen :
         /\ f' = createDimension(f, name, length)
         /\ last' = [op |-> "createDimension", args |-> <<name>>, raised |-> ""]
    /\ UNCHANGED <<stage, pvar, dvar, nderiv, reg>>

\* f.createVariable(name, 'f', dims, **kwds)
ProjCreateVariable ==
    /\ stage = "variables"
    /\ \E name \in ProjVarNames : \E dims \in ProjVarDims(name), kwds \in ProjKwds(name) :
         LET r == createVariable(f, name, "f", dims, <<>>, kwds)
         IN /\ f' = r.f
            /\ last' = [op |-> "createVariable", args |-> <<name, dims, FALSE>>,
                        raised |-> r.raised, before |-> f]
    /\ UNCHANGED <<stage, pvar, dvar, nderiv, reg>>

\* f.fish = 2
ProjSetAttr ==
    /\ stage = "attributes"
    /\ last.op = "none"
    /\ f' = File_setattr(f, "fish", 2)
    /\ last' = [op |-> "setattr", args |-> <<"fish">>, raised |-> ""]
    /\ UNCHANGED <<stage, pvar, dvar, nderiv, reg>>

\* getvarpnc(f, varkeys, coordkeys)
GetVarPnc ==
    /\ stage = "transform"
    /\ \E varkeys \in VarkeyChoices, coordkeys \in CoordkeyChoices, order \in GeoOrders(f) :
         LET r == getvarpnc(f, varkeys, coordkeys, order)
         IN last' = [op |-> "getvarpnc", args |-> <<varkeys, coordkeys>>, raised |-> r.raised,
                     before |-> f, ret |-> r.f, warned |-> r.warned]
    /\ stage' = "done"
    /\ UNCHANGED <<f, pvar, dvar, nderiv, reg>>

NextProject ==
    ProjProceed \/ ProjCreateDimension \/ SetUnlimited \/ ProjCreateVariable \/ ProjSetAttr \/ GetVarPnc

SpecProject == Init /\ [][NextProject]_vars

\* the dimension names the variables named in keys reference in the file self
DimensionsOf(self, keys) ==
    UNION {Range(getattr(self.variables[k], "dimensions")) : k \in keys \cap DOMAIN self.variables}

\* the names given by the 'bounds' attribute of the variables of self named in keys
BoundsOf(self, keys) ==
    {getattr(self.variables[k], "bounds") :
        k \in {j \in keys \cap DOMAIN self.variables : "bounds" \in DOMAIN self.variables[j].dict}}

\* C13: getvarpnc leaves the source as it was and returns a file whose
\* variables are the requested names the source has, the variables named as
\* the dimensions of these, those named in the coordinate keys, and those
\* named by a 'bounds' attribute of one of these coordinate variables; whose
\* dimensions are those these variables reference, each as in the source
\* (length and unlimited flag); and in which every variable has, along each
\* axis, the length of the dimension named there.
C13_ProjectionIsClosed ==
    (last.op = "getvarpnc" /\ last.args[1] # <<>>) =>
        LET src == last.before
            out == last.ret
            requested == Range(last.args[1][1]) \cap DOMAIN src.variables
            coordinates == DimensionsOf(src, requested) \cup last.args[2]
            expected == requested \cup ((coordinates \cup BoundsOf(src, coordinates)) \cap DOMAIN src.variables)
        IN /\ last.raised = ""
           /\ f = src
           /\ DOMAIN out.variables = expected
           /\ DOMAIN out.dimensions = DimensionsOf(out, DOMAIN out.variables)
           /\ \A d \in DOMAIN out.dimensions :
                 d \in DOMAIN src.dimensions /\ out.dimensions[d] = src.dimensions[d]
           /\ Consistent(out)

\* ------------------------------------------ the fuzzy-match specification
\* A file is built with dimensions whose names nest as siblings ('x', 'x0',
\* 'x01') and variables along them; then it is sliced or reduced, with
\* well-formed and with malformed definitions.

FuzzyDimNames == {"x", "x0", "x01"}

FuzzyVarNames == {"v", "time_bounds"}

\* the dimension tuples a variable of each name is created with
FuzzyVarDims(name) ==
    IF name = "v" THEN {<<"x">>, <<"x01">>, <<"x", "x0">>, <<"x0", "x01">>}
    ELSE {<<"x0", "x">>}

\* the slice definitions tried on every dimension
FuzzySliceArgs == {<<<<0>>>>, <<<<1>>, <<MaxLen>>>>, <<<<0>>, <<MaxLen>>, <<2>>>>}

\* the reduce definitions tried on every dimension: well-formed, without a
\* comma, with a weight key that names no variable, with four commas
ReduceDefs(dim) ==
    {<<dim, "sum">>, <<dim, "mean">>, <<dim>>, <<dim, "sum", "w">>, <<dim, "sum", "w", "w", "w">>}

\* one listing of the dimensions and the opposite one
FuzzyOrders(self) ==
    LET ds == ListOf(DOMAIN self.dimensions)
    IN {[dims |-> l, vars |-> ListOf(DOMAIN self.variables)] :
           l \in {ds, [i \in DOMAIN ds |-> ds[Len(ds) + 1 - i]]}}

\* f.createDimension(name, length)
FuzzyCreateDimension ==
    /\ stage = "dimensions"
    /\ \E name \in FuzzyDimNames, length \in 1..MaxLen :
         /\ f' = createDimension(f, name, length)
         /\ last' = [op |-> "createDimension", args |-> <<name>>, raised |-> ""]
    /\ UNCHANGED <<stage, pvar, dvar, nderiv, reg>>

\* f.createVariable(name, 'f', dims, values = ...)
FuzzyCreateVariable ==
    /\ stage = "variables"
    /\ \E name \in FuzzyVarNames : \E dims \in FuzzyVarDims(name) : \E values \in GeoValues(f, dims) :
         LET r == createVariable(f, name, "f", dims, values, <<>>)
         IN /\ f' = r.f
            /\ last' = [op |-> "createVariable", args |-> <<name, dims, TRUE>>,
                        raised |-> r.raised, before |-> f]
    /\ UNCHANGED <<stage, pvar, dvar, nderiv, reg>>

\* slice_dim(f, slicedef, fuzzydim)
FuzzySliceDim ==
    /\ stage = "transform"
    /\ \E dim \in FuzzyDimNames, args \in FuzzySliceArgs, fuzzydim \in BOOLEAN, order \in FuzzyOrders(f) :
         LET r == slice_dim(f, <<dim>> \o args, fuzzydim, order)
         IN /\ f' = r.f
            /\ last' = [op |-> "slice_dim", args |-> <<<<dim>> \o args, fuzzydim>>,
                        raised |-> r.raised, before |-> f]
    /\ stage' = "done"
    /\ UNCHANGED <<pvar, dvar, nderiv, reg>>

\* reduce_dim(f, reducedef, fuzzydim, metakeys)
FuzzyReduceDim ==
    /\ stage = "transform"
    /\ \E dim \in FuzzyDimNames, fuzzydim \in BOOLEAN, metakeys \in MetakeyChoices(f),
          order \in FuzzyOrders(f) :
         \E reducedef \in ReduceDefs(dim) :
            LET r == reduce_dim(f, reducedef, fuzzydim, metakeys, order)
            IN /\ f' = r.f
               /\ last' = [op |-> "reduce_dim", args |-> <<reducedef, fuzzydim, metakeys>>,
                           raised |-> r.raised, before |-> f]
    /\ stage' = "done"
    /\ UNCHANGED <<pvar, dvar, nderiv, reg>>

NextFuzzy ==
    GeoProceed \/ FuzzyCreateDimension \/ FuzzyCreateVariable \/ FuzzySliceDim \/ FuzzyReduceDim

SpecFuzzy == Init /\ [][NextFuzzy]_vars

\* the call is a slice_dim or a reduce_dim whose definition is well formed
\* and names a dimension of the file it is made on
IsTransformation(call) ==
    /\ call.op \in {"slice_dim", "reduce_dim"}
    /\ call.op = "reduce_dim" => Len(call.args[1]) = 2
    /\ call.args[1][1] \in DOMAIN call.before.dimensions

\* the transformation of the call, with the caller's arguments and without
\* fuzzy matching, on the dimension dimk of the file self
Plainly(call, self, dimk) ==
    LET order == [dims |-> ListOf(DOMAIN self.dimensions), vars |-> ListOf(DOMAIN self.variables)]
        def == <<dimk>> \o Tail(call.args[1])
    IN IF call.op = "slice_dim" THEN slice_dim(self, def, FALSE, order)
       ELSE reduce_dim(self, def, FALSE, call.args[3], order)

\* the transformation of the call made once on each sibling of its
\* dimension, then once on the dimension itself
OncePerSibling(call) ==
    LET dim == call.args[1][1]
        siblings == ForEach(LAMBDA g, dimk : Plainly(call, g, dimk), Ok(call.before),
                            ListOf(Siblings(call.before, dim)))
    IN IF siblings.raised # "" THEN siblings ELSE Plainly(call, siblings.f, dim)

\* C14: when slice_dim or reduce_dim is called with fuzzy matching on a
\* dimension of the file, and the same transformation made with the caller's
\* arguments once on each sibling and then once on the dimension returns, the
\* call returns too and leaves the dimensions and the variables that
\* transformation leaves, nested siblings included; a dimension that is not
\* a sibling stays as it was.
C14_FuzzyIsOncePerSibling ==
    (IsTransformation(last) /\ last.args[2] /\ OncePerSibling(last).raised = "") =>
        LET once == OncePerSibling(last).f
            dim == last.args[1][1]
        IN /\ last.raised = ""
           /\ f.dimensions = once.dimensions
           /\ SameVariables(f, once)
           /\ \A d \in DOMAIN last.before.dimensions \ (Siblings(last.before, dim) \cup {dim}) :
                 f.dimensions[d] = last.before.dimensions[d]

\* the call is a slice_dim or a reduce_dim with a configuration error: a
\* dimension name the file has not, a reduce definition without a comma or
\* with more than three, or a weight key that names no variable of the file
IsConfigurationError(call) ==
    /\ call.op \in {"slice_dim", "reduce_dim"}
    /\ \/ call.args[1][1] \notin DOMAIN call.before.dimensions
       \/ call.op = "reduce_dim" /\ Len(call.args[1]) \notin 2..4
       \/ call.op = "reduce_dim" /\ \E i \in 3..Len(call.args[1]) :
                                       call.args[1][i] \notin DOMAIN call.before.variables

\* C15: a slice_dim or reduce_dim called with a configuration error raises
\* and leaves the file as it was before the call: its dimensions, its
\* variables and its attributes, 'history' included; also with fuzzy
\* matching, when the file has siblings of the unknown dimension.
C15_ConfigurationErrorChangesNothing ==
    IsConfigurationError(last) => (last.raised # "" /\ f = last.before)

\* ------------------------------------------- the conversion specification
\* The source file is built as in the file specification; its attributes
\* are set to values the backend stores or rejects.

\* setattr(f, 'fish', value)
ConvSetAttr ==
    /\ stage = "attributes"
    /\ last.op = "none"
    /\ \E i \in 1..2 :
         /\ f' = File_setattr(f, "fish", <<2, Unstorable>>[i])
         /\ last' = [op |-> "setattr", args |-> <<"fish">>, raised |-> ""]
    /\ UNCHANGED <<stage, pvar, dvar, nderiv, reg>>

\* setattr(f.variables['v'], 'long_name', value)
ConvSetVarAttr ==
    /\ stage = "attributes"
    /\ last.op = "none"
    /\ "v" \in DOMAIN f.variables
    /\ \E i \in 1..2 :
         /\ f' = [f EXCEPT !.variables["v"] = Variable_setattr(@, "long_name", <<"ozone", Unstorable>>[i])]
         /\ last' = [op |-> "setattr", args |-> <<"v", "long_name">>, raised |-> ""]
    /\ UNCHANGED <<stage, pvar, dvar, nderiv, reg>>

\* reduce_dim(f, 'x,mean', fuzzydim = False)
ConvReduceDim ==
    /\ stage = "transform"
    /\ last.op = "none"
    /\ \E order \in Orders(f) :
         LET r == reduce_dim(f, <<"x", "mean">>, FALSE, DefaultMetakeys, order)
         IN /\ f' = r.f
            /\ last' = [op |-> "reduce_dim", args |-> <<<<"x", "mean">>, FALSE, DefaultMetakeys>>,
                        raised |-> r.raised, before |-> f]
    /\ UNCHANGED <<stage, pvar, dvar, nderiv, reg>>

\* Pseudo2NetCDF(datafirst).convert(f)
Convert ==
    /\ stage = "transform"
    /\ \E datafirst \in BOOLEAN, order \in Orders(f) :
         LET r == convert(f, datafirst, order)
         IN last' = [op |-> "convert", args |-> <<datafirst>>, raised |-> r.raised,
                     before |-> f, ret |-> r.f]
    /\ stage' = "done"
    /\ UNCHANGED <<f, pvar, dvar, nderiv, reg>>

NextConv ==
    \/ Proceed \/ CreateDimension \/ SetUnlimited \/ CreateVariable
    \/ ConvSetAttr \/ ConvSetVarAttr \/ ConvReduceDim \/ Convert

SpecConv == Init /\ [][NextConv]_vars

\* the attributes of the mapping attrs are those listed in names, with the
\* values they have in dict, but for the rejected ones, each of which was
\* warned of under the scope
SameAttributes(attrs, names, dict, scope, warned) ==
    LET rejected == {k \in Range(names) : NC_rejects(dict[k])}
    IN /\ DOMAIN attrs = Range(names) \ rejected
       /\ \A k \in DOMAIN attrs : attrs[k] = dict[k]
       /\ \A k \in rejected : <<scope, k>> \in warned

\* every unlimited dimension has a variable along it
Populated(self) ==
    \A d \in DOMAIN self.dimensions :
        self.dimensions[d]._unlimited =>
            \E k \in DOMAIN self.variables : d \in Range(getattr(self.variables[k], "dimensions"))

\* C6: convert returns a destination with the dimensions of the source
\* (names, lengths, unlimited flags), its variables (names, dimension tuples,
\* element types, shapes, values) and the attributes ncattrs() lists for the
\* file and for each variable, but for those the backend rejects, each of
\* which is warned of. Stated for a source whose variables have the lengths
\* of their dimensions and whose unlimited dimensions each have a variable
\* along them, the backend giving such a dimension the places written to it.
C6_DestinationEqualsSource ==
    (last.op = "convert" /\ Consistent(last.before) /\ Populated(last.before)) =>
        LET src == last.before
            dst == last.ret.nfile
        IN /\ last.raised = ""
           /\ dst.dimensions = src.dimensions
           /\ DOMAIN dst.variables = DOMAIN src.variables
           /\ \A k \in DOMAIN src.variables :
                 LET var == src.variables[k]
                     nvar == dst.variables[k]
                 IN /\ nvar.dimensions = getattr(var, "dimensions")
                    /\ nvar.dtype = var.dtype
                    /\ nvar.shape = var.shape
                    /\ nvar.data = var.data
                    /\ SameAttributes(nvar.attrs, Variable_ncattrs(var), var.dict, k, last.ret.warned)
           /\ SameAttributes(dst.attrs, File_ncattrs(src), src.dict, "global", last.ret.warned)

\* the places in the list calls of the calls named name
CallsNamed(calls, name) == {i \in DOMAIN calls : calls[i][1] = name}

\* the places in the list calls of the call <<name, k>>
CallsOn(calls, name, k) == {i \in CallsNamed(calls, name) : calls[i][2] = k}

\* the calls from place i on are the definition of the variable k of the
\* file src: its creation, then one setattr for each of its properties
DefinedAt(calls, i, src, k) ==
    LET n == Cardinality(VariableProperties(src.variables[k]))
    IN /\ i + n <= Len(calls)
       /\ calls[i] = <<"createVariable", k>>
       /\ \A j \in (i + 1)..(i + n) : calls[j][1] = "setattr" /\ calls[j][2] = k
       /\ {calls[j][3] : j \in (i + 1)..(i + n)} = VariableProperties(src.variables[k])

\* C11: in every run of convert every dimension of the source is created,
\* and before any attribute is set and any variable is created. With
\* datafirst false no data is written before every variable of the source is
\* created and has its attributes set; with datafirst true the data of a
\* variable is written right after its creation and its attributes, before
\* the next variable is created. No variable is created twice or written
\* twice, and in a run that returns every variable is created once and
\* written once; a run the backend ends with an error stops at the call
\* that raised.
C11_CallsInOrder ==
    last.op = "convert" =>
        LET calls == last.ret.calls
            src == last.before
            datafirst == last.args[1]
            names == DOMAIN src.variables
        IN /\ {calls[i][2] : i \in CallsNamed(calls, "createDimension")} = DOMAIN src.dimensions
           /\ \A i \in CallsNamed(calls, "createDimension") :
                 \A j \in DOMAIN calls \ CallsNamed(calls, "createDimension") : i < j
           /\ \A i \in CallsNamed(calls, "createVariable") :
                 \/ DefinedAt(calls, i, src, calls[i][2])
                 \/ last.raised # "" /\ i = Len(calls)
           /\ ~datafirst =>
                 \A i \in CallsNamed(calls, "assign") :
                     \A k \in names :
                         \E j \in CallsOn(calls, "createVariable", k) :
                             /\ DefinedAt(calls, j, src, k)
                             /\ j + Cardinality(VariableProperties(src.variables[k])) < i
           /\ datafirst =>
                 /\ \A i \in CallsNamed(calls, "createVariable") :
                       LET k == calls[i][2]
                           n == Cardinality(VariableProperties(src.variables[k]))
                       IN DefinedAt(calls, i, src, k) => calls[i + n + 1] = <<"assign", k>>
                 /\ \A i \in CallsNamed(calls, "assign") :
                       \E j \in CallsOn(calls, "createVariable", calls[i][2]) :
                           i = j + Cardinality(VariableProperties(src.variables[calls[i][2]])) + 1
           /\ \A k \in names :
                 /\ Cardinality(CallsOn(calls, "createVariable", k)) <= 1
                 /\ Cardinality(CallsOn(calls, "assign", k)) <= 1
                 /\ last.raised = "" =>
                       /\ Cardinality(CallsOn(calls, "createVariable", k)) = 1
                       /\ Cardinality(CallsOn(calls, "assign", k)) = 1
           /\ \A i \in CallsNamed(calls, "createVariable") \cup CallsNamed(calls, "assign") :
                 calls[i][2] \in names

\* a conversion in the deferred order that returned, of a file with two
\* dimensions, a file attribute and two variables, one of them with
\* attributes
C11_Witness ==
    /\ last.op = "convert"
    /\ ~last.args[1]
    /\ last.raised = ""
    /\ Cardinality(DOMAIN last.before.dimensions) = 2
    /\ Cardinality(DOMAIN last.before.variables) = 2
    /\ GlobalProperties(last.before) # {}
    /\ \E k \in DOMAIN last.before.variables : VariableProperties(last.before.variables[k]) # {}
    /\ Len(last.ret.calls) > 6

\* ------------------------------------------------ the registry specification

\* most keys declared and most factory calls in one behaviour
MaxKeys == 3
MaxCalls == 3

RegKeys == {"NO", "O3", "CO"}

\* a registry as __init__ leaves it, for a declared key list
InitReg ==
    /\ \E keys \in {<<>>, <<"NO", "O3">>} : reg = Variables_init(keys)
    /\ last = NoCall
    /\ pvar = zeros(<<>>, "f")
    /\ dvar = pvar
    /\ nderiv = [n |-> 0, reduced |-> 0, set |-> 0]
    /\ f = File_new
    /\ stage = "dimensions"

\* variables[k]
Lookup ==
    /\ reg.calls < MaxCalls
    /\ \E k \in RegKeys :
         LET r == Variables_getitem(reg, k)
         IN /\ reg' = r.self
            /\ last' = [op |-> "getitem", key |-> k, ret |-> r.ret, raised |-> r.raised]
    /\ UNCHANGED <<pvar, dvar, nderiv, f, stage>>

\* variables.addkey(k)
AddKey ==
    /\ Len(reg.keys) < MaxKeys
    /\ \E k \in RegKeys :
         /\ reg' = Variables_addkey(reg, k)
         /\ last' = [op |-> "addkey", key |-> k, ret |-> <<>>, raised |-> ""]
    /\ UNCHANGED <<pvar, dvar, nderiv, f, stage>>

\* variables[k] = v, with v the factory's value or another one
Store ==
    /\ \E k \in RegKeys : \E v \in {const(k), [made_for |-> "other"]} :
         /\ reg' = Variables_setitem(reg, k, v)
         /\ last' = [op |-> "setitem", key |-> k, ret |-> <<>>, raised |-> ""]
    /\ UNCHANGED <<pvar, dvar, nderiv, f, stage>>

NextReg == Lookup \/ AddKey \/ Store

SpecReg == InitReg /\ [][NextReg]_vars

\* C5: a lookup of a key that is declared and not stored returns the
\* factory's value for it, calls the factory once and stores nothing; a
\* lookup of a key neither declared nor stored raises KeyError and does not
\* call the factory.
C5_LookupCallsFactoryOnce ==
    [][(last'.op = "getitem" /\ last'.key \notin DOMAIN reg.stored) =>
          IF last'.key \in Range(reg.keys)
          THEN /\ last'.raised = ""
               /\ last'.ret = <<const(last'.key)>>
               /\ reg'.calls = reg.calls + 1
               /\ reg'.stored = reg.stored
               /\ reg'.keys = reg.keys
          ELSE /\ last'.raised = "KeyError"
               /\ reg'.calls = reg.calls
               /\ reg'.stored = reg.stored]_vars

\* the same declared key looked up twice, and a key added by addkey looked up
C5_Witness ==
    /\ last.op = "getitem"
    /\ last.raised = ""
    /\ last.key \notin DOMAIN reg.stored
    /\ last.key = "CO"
    /\ reg.calls >= 2
====
